---- MODULE Spec2Model ----
(***************************************************************************)
(* Model of src/app.py: the NovaSonicSession protocol engine (start,       *)
(* audio input, end, response dispatcher) and the socket handlers that     *)
(* keep the process-wide session table.                                    *)
(*                                                                         *)
(* A coroutine is cut at its awaits: one action is the completion of one   *)
(* await together with the synchronous code that follows it, up to the     *)
(* next await.  The action that calls a coroutine runs its code up to the  *)
(* first await.                                                            *)
(***************************************************************************)
EXTENDS Naturals, Sequences, FiniteSets

VARIABLES
    \* ---- one NovaSonicSession object ----
    scenario,               \* self.scenario
    voice_id,               \* self.voice_id
    client,                 \* self.client is set
    stream,                 \* self.stream: "none", "open", "closed" (input side closed)
    response_task,          \* self.response_task: "none", "scheduled", "awaiting",
                            \*   "exited", "crashed", "cancelled", "loop_closed"
                            \*   (pending on an event loop that was closed)
    cancel_requested,       \* response_task.cancel() was called
    is_active,              \* self.is_active
    role,                   \* self.role
    display_assistant_text, \* self.display_assistant_text
    audio_input_started,    \* hasattr(self, 'audio_input_started')
    wire,                   \* every send_event call so far: who sent which frame, and
                            \*   whether input_stream.send accepted it
    pcStart,                \* position of the start_session coroutine
    startResult,            \* its return value: "none", "true", "false"
    pcSend,                 \* position of the send_audio_chunk coroutine
    sendChunk,              \* its argument
    sendLog,                \* the finished send_audio_chunk calls
    pcSend2,                \* position of a second send_audio_chunk coroutine, running
                            \*   on another task
    sendChunk2,             \* its argument
    pcEnd,                  \* position of the end_session coroutine
    endCalls,               \* number of end_session calls so far
    endCtx,                 \* is_active and audio_input_started as the last call found them
    endResult,              \* how the last end_session call returned
    inlog,                  \* frames received by _process_responses, in order
    emitted,                \* socketio.emit calls made by _process_responses, in order
    \* ---- the process: socket handlers and the session table ----
    connected,              \* sids of the connected clients
    disconnected,           \* sids of the clients that have disconnected
    objs,                   \* the NovaSonicSession objects created so far; objs[i] has
                            \*   session_id i
    active_sessions,        \* keys of the active_sessions dict
    threads,                \* background threads started and not yet finished
    events,                 \* events emitted to clients by handlers and threads
    requests,               \* number of client requests handled so far
    lastRequest,            \* the event the last handler run was called for
    handlers                \* handler runs in progress on server threads, where they
                            \*   are followed statement by statement

sessVars == <<scenario, voice_id, client, stream, response_task, cancel_requested,
              is_active, role, display_assistant_text, audio_input_started, wire,
              pcStart, startResult, pcSend, sendChunk, sendLog, pcSend2, sendChunk2,
              pcEnd, endCalls, endCtx, endResult, inlog, emitted>>

appVars == <<connected, disconnected, objs, active_sessions, threads, events, requests,
             lastRequest, handlers>>

vars == <<sessVars, appVars>>

-----------------------------------------------------------------------------
(* Bounds *)

MaxSendCalls == 3
MaxEndCalls == 2
MaxInbound == 3
MaxSessions == 2
MaxRequests == 3
\* requests handled in the runs of the registry specification
MaxRegistryRequests == 2
\* send_audio_chunk calls in the runs with concurrent tasks
MaxTaskSends == 2

-----------------------------------------------------------------------------
(* Static configuration *)

ScenarioKeys == {"vmware-migration", "situational-fluency", "smb-prospecting"}
RequestedScenarios == ScenarioKeys \cup {"unknown-key"}
Voices == {"matthew", "Joanna"}
Chunks == {"chunkA", "chunkB"}

\* prompts.get(self.scenario, prompts['situational-fluency'])
get_scenario_prompt(sc) ==
    IF sc \in ScenarioKeys THEN "prompt:" \o sc ELSE "prompt:situational-fluency"

\* Outbound frames.  name is the contentName the frame carries ("" when it carries none).
Frame(ev, name, r, content) == [ev |-> ev, name |-> name, role |-> r, content |-> content]

SessionStartFrame == Frame("sessionStart", "", "", "")
PromptStartFrame(v) == Frame("promptStart", "", "", v)
TextContentStartFrame == Frame("contentStart", "content_name", "SYSTEM", "TEXT")
TextInputFrame(sc) == Frame("textInput", "content_name", "", get_scenario_prompt(sc))
TextContentEndFrame == Frame("contentEnd", "content_name", "", "")
AudioContentStartFrame == Frame("contentStart", "audio_content_name", "USER", "AUDIO")
AudioInputFrame(c) == Frame("audioInput", "audio_content_name", "", c)
AudioContentEndFrame == Frame("contentEnd", "audio_content_name", "", "")
PromptEndFrame == Frame("promptEnd", "", "", "")
SessionEndFrame == Frame("sessionEnd", "", "", "")

\* The frames start_session sends, in program order.
StartFrames(sc, v) ==
    << SessionStartFrame, PromptStartFrame(v), TextContentStartFrame,
       TextInputFrame(sc), TextContentEndFrame >>

-----------------------------------------------------------------------------
(* send_event *)

\* Outcomes of `await self.stream.input_stream.send(event)`: with no stream
\* (self.stream is None) or a closed input stream the call raises; on an open
\* stream the network decides.
SendOutcomes == IF stream = "open" THEN {TRUE, FALSE} ELSE {FALSE}

\* send_event(frame) made by coroutine `by` with outcome ok
Sent(by, f, ok) == Append(wire, [by |-> by, frame |-> f, ok |-> ok])

RECURSIVE Accepted(_)
\* The frames the remote stream received, in order.
Accepted(w) ==
    IF w = << >> THEN << >>
    ELSE IF w[1].ok THEN << w[1].frame >> \o Accepted(Tail(w))
         ELSE Accepted(Tail(w))

-----------------------------------------------------------------------------
Init ==
    /\ scenario \in RequestedScenarios
    /\ voice_id \in Voices
    /\ client = FALSE
    /\ stream = "none"
    /\ response_task = "none"
    /\ cancel_requested = FALSE
    /\ is_active = FALSE
    /\ role = "None"
    /\ display_assistant_text = FALSE
    /\ audio_input_started = FALSE
    /\ wire = << >>
    /\ pcStart = "idle"
    /\ startResult = "none"
    /\ pcSend = "idle"
    /\ sendChunk = ""
    /\ sendLog = << >>
    /\ pcSend2 = "idle"
    /\ sendChunk2 = ""
    /\ pcEnd = "idle"
    /\ endCalls = 0
    /\ endCtx = [active |-> FALSE, audio |-> FALSE]
    /\ endResult = "none"
    /\ inlog = << >>
    /\ emitted = << >>
    /\ connected = {}
    /\ disconnected = {}
    /\ objs = << >>
    /\ active_sessions = {}
    /\ threads = {}
    /\ events = {}
    /\ requests = 0
    /\ lastRequest = [kind |-> "none", from |-> "", id |-> 0]
    /\ handlers = {}

-----------------------------------------------------------------------------
(* Variable groups *)

cfgVars == <<scenario, voice_id>>
dispVars == <<role, display_assistant_text, inlog, emitted>>
startVars == <<pcStart, startResult>>
otherSendVars == <<pcSend2, sendChunk2>>
sendVars == <<pcSend, sendChunk, sendLog, otherSendVars>>
endVars == <<pcEnd, endCalls, endCtx, endResult>>

-----------------------------------------------------------------------------
(* NovaSonicSession.start_session *)

\* Number of send_event calls start_session has made so far.
StartSends == Len(SelectSeq(wire, LAMBDA e : e.by = "start"))

\* The except branch of start_session: is_active = False; return False.
StartFailed ==
    /\ is_active' = FALSE
    /\ startResult' = "false"
    /\ pcStart' = "done"

\* start_session is called: _initialize_client, then the stream is requested.
StartCall ==
    /\ pcStart = "idle"
    /\ \E ok \in BOOLEAN :
         IF ok
         THEN /\ client' = TRUE
              /\ pcStart' = "open"
              /\ UNCHANGED <<is_active, startResult>>
         ELSE /\ StartFailed
              /\ UNCHANGED client
    /\ UNCHANGED <<appVars, cfgVars, dispVars, sendVars, endVars, stream, response_task,
                   cancel_requested, audio_input_started, wire>>

\* invoke_model_with_bidirectional_stream returns or raises; on return the
\* stream is kept and is_active is set.
StartOpen ==
    /\ pcStart = "open"
    /\ \E ok \in BOOLEAN :
         IF ok
         THEN /\ stream' = "open"
              /\ is_active' = TRUE
              /\ pcStart' = "send"
              /\ UNCHANGED startResult
         ELSE /\ StartFailed
              /\ UNCHANGED stream
    /\ UNCHANGED <<appVars, cfgVars, dispVars, sendVars, endVars, client, response_task,
                   cancel_requested, audio_input_started, wire>>

\* The next handshake frame's send_event returns or raises; after the last one
\* the response task is created and start_session returns True.
StartSend ==
    /\ pcStart = "send"
    /\ LET frames == StartFrames(scenario, voice_id)
           k == StartSends + 1
       IN \E ok \in SendOutcomes :
            /\ wire' = Sent("start", frames[k], ok)
            /\ IF ~ok
               THEN /\ StartFailed
                    /\ UNCHANGED response_task
               ELSE IF k = Len(frames)
               THEN /\ response_task' = "scheduled"
                    /\ startResult' = "true"
                    /\ pcStart' = "done"
                    /\ UNCHANGED is_active
               ELSE UNCHANGED <<response_task, startVars, is_active>>
    /\ UNCHANGED <<appVars, cfgVars, dispVars, sendVars, endVars, client, stream,
                   cancel_requested, audio_input_started>>

-----------------------------------------------------------------------------
(* NovaSonicSession.send_audio_chunk, start_audio_input *)

SendGuardInactive_Never == FALSE

\* if not self.is_active: return False
SendGuardInactive == ~is_active

NeedAudioStart_Always == TRUE

\* if not hasattr(self, 'audio_input_started')
NeedAudioStart == ~audio_input_started

\* send_audio_chunk returns
SendReturn(c, active, result) ==
    /\ sendLog' = Append(sendLog, [chunk |-> c, active |-> active, result |-> result])
    /\ pcSend' = "idle"
    /\ sendChunk' = ""

\* send_audio_chunk(c) is called
SendCall(c) ==
    /\ pcSend = "idle"
    /\ Len(sendLog) < MaxSendCalls
    /\ IF SendGuardInactive
       THEN SendReturn(c, FALSE, FALSE)
       ELSE /\ sendChunk' = c
            /\ pcSend' = IF NeedAudioStart THEN "contentStart" ELSE "audioInput"
            /\ UNCHANGED sendLog
    /\ UNCHANGED <<appVars, cfgVars, dispVars, startVars, endVars, otherSendVars, client, stream,
                   response_task, cancel_requested, is_active, audio_input_started, wire>>

\* send_audio_chunk with `self.audio_input_started = True` placed before
\* `await self.start_audio_input()`
SendAudioStart_FlagFirst ==
    /\ pcSend = "contentStart"
    /\ audio_input_started' = TRUE
    /\ \E ok \in SendOutcomes :
         /\ wire' = Sent("send", AudioContentStartFrame, ok)
         /\ IF ok
            THEN /\ pcSend' = "audioInput"
                 /\ UNCHANGED <<sendChunk, sendLog>>
            ELSE SendReturn(sendChunk, TRUE, FALSE)
    /\ UNCHANGED <<appVars, cfgVars, dispVars, startVars, endVars, otherSendVars, client, stream,
                   response_task, cancel_requested, is_active>>

\* start_audio_input's send_event returns (audio_input_started is set) or raises
SendAudioStart ==
    /\ pcSend = "contentStart"
    /\ \E ok \in SendOutcomes :
         /\ wire' = Sent("send", AudioContentStartFrame, ok)
         /\ IF ok
            THEN /\ audio_input_started' = TRUE
                 /\ pcSend' = "audioInput"
                 /\ UNCHANGED <<sendChunk, sendLog>>
            ELSE /\ SendReturn(sendChunk, TRUE, FALSE)
                 /\ UNCHANGED audio_input_started
    /\ UNCHANGED <<appVars, cfgVars, dispVars, startVars, endVars, otherSendVars, client, stream,
                   response_task, cancel_requested, is_active>>

\* the audioInput frame's send_event returns (return True) or raises (return False)
SendAudioInput ==
    /\ pcSend = "audioInput"
    /\ \E ok \in SendOutcomes :
         /\ wire' = Sent("send", AudioInputFrame(sendChunk), ok)
         /\ SendReturn(sendChunk, TRUE, ok)
    /\ UNCHANGED <<appVars, cfgVars, dispVars, startVars, endVars, otherSendVars, client, stream,
                   response_task, cancel_requested, is_active, audio_input_started>>

\* A second send_audio_chunk call, made on another task while the first may be
\* in flight: the same coroutine, with its own position and argument.
OtherSendReturn(c, active, result) ==
    /\ sendLog' = Append(sendLog, [chunk |-> c, active |-> active, result |-> result])
    /\ pcSend2' = "idle"
    /\ sendChunk2' = ""

OtherSendCall(c) ==
    /\ pcSend2 = "idle"
    /\ Len(sendLog) < MaxSendCalls
    /\ IF SendGuardInactive
       THEN OtherSendReturn(c, FALSE, FALSE)
       ELSE /\ sendChunk2' = c
            /\ pcSend2' = IF NeedAudioStart THEN "contentStart" ELSE "audioInput"
            /\ UNCHANGED sendLog
    /\ UNCHANGED <<appVars, cfgVars, dispVars, startVars, endVars, pcSend, sendChunk, client,
                   stream, response_task, cancel_requested, is_active, audio_input_started,
                   wire>>

OtherSendAudioStart ==
    /\ pcSend2 = "contentStart"
    /\ \E ok \in SendOutcomes :
         /\ wire' = Sent("send", AudioContentStartFrame, ok)
         /\ IF ok
            THEN /\ audio_input_started' = TRUE
                 /\ pcSend2' = "audioInput"
                 /\ UNCHANGED <<sendChunk2, sendLog>>
            ELSE /\ OtherSendReturn(sendChunk2, TRUE, FALSE)
                 /\ UNCHANGED audio_input_started
    /\ UNCHANGED <<appVars, cfgVars, dispVars, startVars, endVars, pcSend, sendChunk, client,
                   stream, response_task, cancel_requested, is_active>>

OtherSendAudioInput ==
    /\ pcSend2 = "audioInput"
    /\ \E ok \in SendOutcomes :
         /\ wire' = Sent("send", AudioInputFrame(sendChunk2), ok)
         /\ OtherSendReturn(sendChunk2, TRUE, ok)
    /\ UNCHANGED <<appVars, cfgVars, dispVars, startVars, endVars, pcSend, sendChunk, client,
                   stream, response_task, cancel_requested, is_active, audio_input_started>>

-----------------------------------------------------------------------------
(* NovaSonicSession.end_session, end_audio_input *)

EndGuardInactive_Never == FALSE

\* if not self.is_active: return
EndGuardInactive == ~is_active

\* self.response_task.done()
TaskDone == response_task \in {"exited", "crashed", "cancelled"}

\* the except branch of end_session: the error is logged and the call returns
EndFailed ==
    /\ pcEnd' = "idle"
    /\ endResult' = "error"

\* end_session is called
EndCall ==
    /\ pcEnd = "idle"
    /\ endCalls < MaxEndCalls
    /\ endCalls' = endCalls + 1
    /\ endCtx' = [active |-> is_active, audio |-> audio_input_started]
    /\ IF EndGuardInactive
       THEN /\ endResult' = "noop"
            /\ UNCHANGED <<is_active, pcEnd>>
       ELSE /\ is_active' = FALSE
            /\ endResult' = "running"
            /\ pcEnd' = IF audio_input_started THEN "contentEnd" ELSE "promptEnd"
    /\ UNCHANGED <<appVars, cfgVars, dispVars, startVars, sendVars, client, stream, response_task,
                   cancel_requested, audio_input_started, wire>>

\* end_audio_input's send_event returns (the attribute is deleted) or raises
EndAudioInput ==
    /\ pcEnd = "contentEnd"
    /\ \E ok \in SendOutcomes :
         /\ wire' = Sent("end", AudioContentEndFrame, ok)
         /\ IF ok
            THEN /\ audio_input_started' = FALSE
                 /\ pcEnd' = "promptEnd"
                 /\ UNCHANGED endResult
            ELSE /\ EndFailed
                 /\ UNCHANGED audio_input_started
    /\ UNCHANGED <<appVars, cfgVars, dispVars, startVars, sendVars, client, stream, response_task,
                   cancel_requested, is_active, endCalls, endCtx>>

\* the promptEnd frame's send_event returns or raises
EndPrompt ==
    /\ pcEnd = "promptEnd"
    /\ \E ok \in SendOutcomes :
         /\ wire' = Sent("end", PromptEndFrame, ok)
         /\ IF ok
            THEN /\ pcEnd' = "sessionEnd"
                 /\ UNCHANGED endResult
            ELSE EndFailed
    /\ UNCHANGED <<appVars, cfgVars, dispVars, startVars, sendVars, client, stream, response_task,
                   cancel_requested, is_active, audio_input_started, endCalls, endCtx>>

\* if self.response_task and not self.response_task.done(): cancel(); then return
EndCancelAndReturn ==
    /\ cancel_requested' = (cancel_requested \/ (response_task # "none" /\ ~TaskDone))
    /\ pcEnd' = "idle"
    /\ endResult' = "ok"

\* the sessionEnd frame's send_event returns or raises
EndSessionFrame ==
    /\ pcEnd = "sessionEnd"
    /\ \E ok \in SendOutcomes :
         /\ wire' = Sent("end", SessionEndFrame, ok)
         /\ IF ~ok
            THEN /\ EndFailed
                 /\ UNCHANGED cancel_requested
            ELSE IF stream # "none"
            THEN /\ pcEnd' = "close"
                 /\ UNCHANGED <<endResult, cancel_requested>>
            ELSE EndCancelAndReturn
    /\ UNCHANGED <<appVars, cfgVars, dispVars, startVars, sendVars, client, stream, response_task,
                   is_active, audio_input_started, endCalls, endCtx>>

\* input_stream.close() returns or raises
EndClose ==
    /\ pcEnd = "close"
    /\ \E ok \in BOOLEAN :
         IF ok
         THEN /\ stream' = "closed"
              /\ EndCancelAndReturn
         ELSE /\ EndFailed
              /\ UNCHANGED <<stream, cancel_requested>>
    /\ UNCHANGED <<appVars, cfgVars, dispVars, startVars, sendVars, client, response_task,
                   is_active, audio_input_started, wire, endCalls, endCtx>>

-----------------------------------------------------------------------------
(* NovaSonicSession._process_responses *)

InboundRoles == {"USER", "ASSISTANT"}

\* additionalModelFields of a contentStart frame: the key is absent, or its value
\* is JSON with generationStage SPECULATIVE, JSON with generationStage FINAL, or
\* text json.loads rejects.
Metas == {"absent", "SPECULATIVE", "FINAL", "undecodable"}

InFrame(ev, r, meta, content) == [ev |-> ev, role |-> r, meta |-> meta, content |-> content]

\* What `receive()` can return: the three event kinds the loop handles, an event
\* it does not know, and bytes that are not a JSON document.  An audioOutput
\* frame carries base64 text ("b64:ok") or text b64decode rejects ("b64:bad").
InFrames ==
    { InFrame("contentStart", r, m, "") : r \in InboundRoles, m \in Metas }
    \cup { InFrame("textOutput", "", "", "hello") }
    \cup { InFrame("audioOutput", "", "", a) : a \in {"b64:ok", "b64:bad"} }
    \cup { InFrame("usageEvent", "", "", ""), InFrame("garbage", "", "", "") }

\* json.loads(response_data) raises, or base64.b64decode(audio_content) raises
Malformed(f) ==
    \/ f.ev = "garbage"
    \/ f.ev = "audioOutput" /\ f.content = "b64:bad"

\* display_assistant_text after a contentStart frame with metadata `meta`
DisplayAfter(meta, cur) ==
    CASE meta = "absent" -> cur
      [] meta = "SPECULATIVE" -> TRUE
      [] OTHER -> FALSE

TextOutputEvent_UserGated(r, display) ==
    IF r = "ASSISTANT" /\ display THEN "ai_text"
    ELSE IF r = "USER" /\ ~display THEN "user_text"
    ELSE "none"

\* the event a textOutput frame is emitted as ("none": it is not emitted)
TextOutputEvent(r, display) ==
    IF r = "ASSISTANT" /\ display THEN "ai_text"
    ELSE IF r = "USER" THEN "user_text"
    ELSE "none"

Emit(name, f) == Append(emitted, [name |-> name, payload |-> f.content, frame |-> Len(inlog) + 1])

\* First step of the response task: a cancel requested before it ran cancels it,
\* else the loop condition is evaluated and the first receive is awaited.
DispStart ==
    /\ response_task = "scheduled"
    /\ response_task' = IF cancel_requested THEN "cancelled"
                        ELSE IF is_active THEN "awaiting" ELSE "exited"
    /\ UNCHANGED <<appVars, cfgVars, dispVars, startVars, sendVars, endVars, client, stream,
                   cancel_requested, is_active, audio_input_started, wire>>

\* The awaited receive is cancelled: CancelledError is no Exception, the task ends.
DispCancelled ==
    /\ response_task = "awaiting"
    /\ cancel_requested
    /\ response_task' = "cancelled"
    /\ UNCHANGED <<appVars, cfgVars, dispVars, startVars, sendVars, endVars, client, stream,
                   cancel_requested, is_active, audio_input_started, wire>>

\* start_session_async after run_until_complete(session.start_session()) has
\* returned: loop.close().  create_task queued the response task's first step
\* before start_session returned, so that step has run when the loop stops;
\* the task is left suspended in its await on a loop that never runs again.
StartLoopClose ==
    /\ pcStart = "done"
    /\ response_task = "awaiting"
    /\ response_task' = "loop_closed"
    /\ UNCHANGED <<appVars, cfgVars, dispVars, startVars, sendVars, endVars, client, stream,
                   cancel_requested, is_active, audio_input_started, wire>>

\* The awaited receive returns frame f; it is handled and the loop condition is
\* evaluated again.  An exception leaves the loop through the except branch.
DispReceive(f) ==
    /\ response_task = "awaiting"
    /\ ~cancel_requested
    /\ Len(inlog) < MaxInbound
    /\ inlog' = Append(inlog, f)
    /\ IF Malformed(f)
       THEN /\ response_task' = "crashed"
            /\ UNCHANGED <<role, display_assistant_text, emitted>>
       ELSE /\ response_task' = IF is_active THEN "awaiting" ELSE "exited"
            /\ CASE f.ev = "contentStart" ->
                      /\ role' = f.role
                      /\ display_assistant_text' = DisplayAfter(f.meta, display_assistant_text)
                      /\ UNCHANGED emitted
                 [] f.ev = "textOutput" ->
                      /\ emitted' = IF TextOutputEvent(role, display_assistant_text) = "none"
                                    THEN emitted
                                    ELSE Emit(TextOutputEvent(role, display_assistant_text), f)
                      /\ UNCHANGED <<role, display_assistant_text>>
                 [] f.ev = "audioOutput" ->
                      /\ emitted' = Emit("ai_audio", f)
                      /\ UNCHANGED <<role, display_assistant_text>>
                 [] OTHER -> UNCHANGED <<role, display_assistant_text, emitted>>
    /\ UNCHANGED <<appVars, cfgVars, startVars, sendVars, endVars, client, stream,
                   cancel_requested, is_active, audio_input_started, wire>>

-----------------------------------------------------------------------------
(* The process: active_sessions and the socket handlers *)

\* A sid names one connection: a client that reconnects gets a new one.
Sids == {"sidA", "sidB"}

\* session_id values a client can name: the ids of created sessions and one
\* that no session has
NamedIds == 0..MaxSessions

\* The data of a start_session request: both keys given, or none
\* (data.get('scenario', 'vmware-migration'), data.get('voice', 'matthew')).
StartRequests ==
    { [scenario |-> "smb-prospecting", voice |-> "Joanna"],
      [scenario |-> "vmware-migration", voice |-> "matthew"],
      [scenario |-> "unknown-key", voice |-> "matthew"] }

\* NovaSonicSession(session_id, scenario, voice_id); session.client_id = request.sid.
\* sent holds the frames the stream accepted after the handshake.
NewSession(c, sc, v) ==
    [client_id |-> c, scenario |-> sc, voice_id |-> v, is_active |-> FALSE,
     audio_input_started |-> FALSE, stream |-> "none", cancel_requested |-> FALSE,
     task_created |-> FALSE, sent |-> << >>, end_calls |-> 0]

\* start_session run to its return on object o: the stream opens or not, and
\* then every handshake frame is accepted (ok: it returns True) or a send raises
RunStart(o, opened, ok) ==
    [o EXCEPT !.stream = IF opened THEN "open" ELSE o.stream,
              !.is_active = ok,
              !.task_created = ok]

\* The frames end_session sends on object o, in program order.
EndFrames(o) ==
    (IF o.audio_input_started THEN << AudioContentEndFrame >> ELSE << >>)
        \o << PromptEndFrame, SessionEndFrame >>

\* end_session run to its return on object o: an inactive session is left as it
\* is; else n closing frames are accepted before a send raises, and after all of
\* them the stream is closed (unless close raises) and the response task cancelled.
RunEnd(o, n, closed) ==
    IF ~o.is_active THEN [o EXCEPT !.end_calls = o.end_calls + 1]
    ELSE [o EXCEPT !.is_active = FALSE,
                   !.end_calls = o.end_calls + 1,
                   !.sent = o.sent \o SubSeq(EndFrames(o), 1, n),
                   !.audio_input_started =
                       IF n >= 1 THEN FALSE ELSE o.audio_input_started,
                   !.stream = IF closed THEN "closed" ELSE o.stream,
                   !.cancel_requested = o.cancel_requested \/ (closed /\ o.task_created)]

\* The outcomes end_session can have on object o: close is reached only after
\* every closing frame was accepted.
EndOutcomes(o) ==
    { x \in (0..Len(EndFrames(o))) \X BOOLEAN : x[2] => x[1] = Len(EndFrames(o)) }

\* The frames send_audio_chunk(c) sends on object o, in program order.
AudioSendFrames(o, c) ==
    (IF o.audio_input_started THEN << >> ELSE << AudioContentStartFrame >>)
        \o << AudioInputFrame(c) >>

\* send_audio_chunk(c) run to its return on object o: an inactive session is
\* left as it is; else n of its frames are accepted before a send raises
RunSend(o, c, n) ==
    IF ~o.is_active THEN o
    ELSE [o EXCEPT !.sent = o.sent \o SubSeq(AudioSendFrames(o, c), 1, n),
                   !.audio_input_started = o.audio_input_started \/ n >= 1]

\* socketio.emit / emit: an event for one client (room).  req is the number of
\* the request whose handler or thread emitted it.
Event(to, name, req, sid, sc, v, msg) ==
    [to |-> to, name |-> name, req |-> req, session_id |-> sid, scenario |-> sc,
     voice |-> v, message |-> msg]

\* `request.sid` read on a background thread: the request proxy is bound to the
\* handler's context, which a new thread does not always inherit; the read gives
\* the sid or raises RuntimeError and the thread dies.
RequestSidInThread == {"sid", "RuntimeError"}

\* a socket event from client c; id is the session_id it names (for
\* start_session: the one it creates)
Request(kind, c, id) == [kind |-> kind, from |-> c, id |-> id]

Thread(kind, req, id, chunk) == [kind |-> kind, req |-> req, sid |-> id, chunk |-> chunk]

\* health(): len(active_sessions)
health == Cardinality(active_sessions)

\* @socketio.on('connect')
handle_connect(c) ==
    /\ c \notin connected \cup disconnected
    /\ connected' = connected \cup {c}
    /\ events' = events \cup {Event(c, "connected", 0, 0, "", "", "Connected to Nova Sonic")}
    /\ lastRequest' = Request("connect", c, 0)
    /\ UNCHANGED <<sessVars, handlers, disconnected, objs, active_sessions, threads, requests>>

\* @socketio.on('start_session'): the session is created, stored in
\* active_sessions and a thread is started for start_session_async
handle_start_session(c, data) ==
    /\ c \in connected
    /\ requests < MaxRequests
    /\ Len(objs) < MaxSessions
    /\ requests' = requests + 1
    /\ objs' = Append(objs, NewSession(c, data.scenario, data.voice))
    /\ active_sessions' = active_sessions \cup {Len(objs) + 1}
    /\ threads' = threads \cup {Thread("start", requests + 1, Len(objs) + 1, "")}
    /\ lastRequest' = Request("start_session", c, Len(objs) + 1)
    /\ UNCHANGED <<sessVars, handlers, connected, disconnected, events>>

\* start_session_async: start_session runs to its return on the thread's own
\* event loop, the loop is closed, and session_started or session_error is
\* emitted to room request.sid
start_session_async(t) ==
    /\ t \in threads
    /\ t.kind = "start"
    /\ LET o == objs[t.sid]
       IN \E opened \in BOOLEAN, ok \in BOOLEAN, room \in RequestSidInThread :
            /\ (ok => opened)
            /\ objs' = [objs EXCEPT ![t.sid] = RunStart(o, opened, ok)]
            /\ events' =
                 IF room = "RuntimeError" THEN events
                 ELSE IF ok
                 THEN events \cup {Event(o.client_id, "session_started", t.req, t.sid,
                                         o.scenario, o.voice_id, "")}
                 ELSE events \cup {Event(o.client_id, "session_error", t.req, 0, "", "",
                                         "Failed to start Nova Sonic session")}
    /\ threads' = threads \ {t}
    /\ UNCHANGED <<sessVars, handlers, connected, disconnected, active_sessions, requests,
                   lastRequest>>

\* The start_session thread in three parts, to follow the response task that
\* start_session creates on the thread's event loop.
\* (1) run_until_complete(session.start_session()) up to start_session's
\* return; a failed start goes on to the session_error emit at once
start_session_async_run(t) ==
    /\ t \in threads
    /\ t.kind = "start"
    /\ LET o == objs[t.sid]
       IN \E opened \in BOOLEAN, ok \in BOOLEAN, room \in RequestSidInThread :
            /\ (ok => opened)
            /\ objs' = [objs EXCEPT ![t.sid] = RunStart(o, opened, ok)]
            /\ threads' = (threads \ {t}) \cup
                   (IF ok THEN {Thread("dispatch", t.req, t.sid, "")} ELSE {})
            /\ events' =
                 IF ok \/ room = "RuntimeError" THEN events
                 ELSE events \cup {Event(o.client_id, "session_error", t.req, 0, "", "",
                                         "Failed to start Nova Sonic session")}
    /\ UNCHANGED <<sessVars, handlers, connected, disconnected, active_sessions, requests,
                   lastRequest>>

\* the names of the events _process_responses emits
ForwardedNames == {"ai_text", "user_text", "ai_audio"}

\* socketio.emit(name, {..., 'session_id': id}) with neither `room` nor `to`:
\* the event goes to every connected client
Broadcast(name, req, id) == {Event(c, name, req, id, "", "", "") : c \in connected}

\* (2) the response task handles a frame before the thread's loop stops and
\* forwards it
process_responses_emit(t, name) ==
    /\ t \in threads
    /\ t.kind = "dispatch"
    /\ objs[t.sid].is_active
    /\ events' = events \cup Broadcast(name, t.req, t.sid)
    /\ UNCHANGED <<sessVars, handlers, connected, disconnected, objs, active_sessions,
                   threads, requests, lastRequest>>

\* (3) loop.close() and the session_started emit to room request.sid
start_session_async_close(t) ==
    /\ t \in threads
    /\ t.kind = "dispatch"
    /\ LET o == objs[t.sid]
       IN \E room \in RequestSidInThread :
            events' =
                 IF room = "RuntimeError" THEN events
                 ELSE events \cup {Event(o.client_id, "session_started", t.req, t.sid,
                                         o.scenario, o.voice_id, "")}
    /\ threads' = threads \ {t}
    /\ UNCHANGED <<sessVars, handlers, connected, disconnected, objs, active_sessions,
                   requests, lastRequest>>

\* @socketio.on('send_audio'): an unknown session_id is answered with an error
\* event, else a thread is started for send_audio_async
handle_send_audio(c, id, chunk) ==
    /\ c \in connected
    /\ requests < MaxRequests
    /\ requests' = requests + 1
    /\ IF id \notin active_sessions
       THEN /\ events' = events \cup
                    {Event(c, "error", requests + 1, 0, "", "", "Session not found")}
            /\ UNCHANGED threads
       ELSE /\ threads' = threads \cup {Thread("send", requests + 1, id, chunk)}
            /\ UNCHANGED events
    /\ lastRequest' = Request("send_audio", c, id)
    /\ UNCHANGED <<sessVars, handlers, connected, disconnected, objs, active_sessions>>

\* send_audio_async: send_audio_chunk runs to its return
send_audio_async(t) ==
    /\ t \in threads
    /\ t.kind = "send"
    /\ \E n \in 0..Len(AudioSendFrames(objs[t.sid], t.chunk)) :
         objs' = [objs EXCEPT ![t.sid] = RunSend(objs[t.sid], t.chunk, n)]
    /\ threads' = threads \ {t}
    /\ UNCHANGED <<sessVars, handlers, connected, disconnected, active_sessions, events, requests,
                   lastRequest>>

\* handle_end_session with `del active_sessions[session_id]` outside the `if`
\* of line 514: for an unknown id the del raises KeyError and the except branch
\* of lines 530-532 emits it
handle_end_session_DelOutsideIf(c, id) ==
    /\ c \in connected
    /\ requests < MaxRequests
    /\ requests' = requests + 1
    /\ IF id \in active_sessions
       THEN /\ threads' = threads \cup {Thread("end", requests + 1, id, "")}
            /\ active_sessions' = active_sessions \ {id}
            /\ events' = events \cup {Event(c, "session_ended", requests + 1, id, "", "", "")}
       ELSE /\ events' = events \cup {Event(c, "error", requests + 1, 0, "", "", "KeyError")}
            /\ UNCHANGED <<threads, active_sessions>>
    /\ lastRequest' = Request("end_session", c, id)
    /\ UNCHANGED <<sessVars, handlers, connected, disconnected, objs>>

\* @socketio.on('end_session'): for a known session_id a thread is started for
\* end_session_async, the entry is deleted and session_ended is emitted
handle_end_session(c, id) ==
    /\ c \in connected
    /\ requests < MaxRequests
    /\ requests' = requests + 1
    /\ IF id \in active_sessions
       THEN /\ threads' = threads \cup {Thread("end", requests + 1, id, "")}
            /\ active_sessions' = active_sessions \ {id}
            /\ events' = events \cup {Event(c, "session_ended", requests + 1, id, "", "", "")}
       ELSE UNCHANGED <<threads, active_sessions, events>>
    /\ lastRequest' = Request("end_session", c, id)
    /\ UNCHANGED <<sessVars, handlers, connected, disconnected, objs>>

\* end_session_async: end_session runs to its return
end_session_async(t) ==
    /\ t \in threads
    /\ t.kind = "end"
    /\ \E x \in EndOutcomes(objs[t.sid]) :
         objs' = [objs EXCEPT ![t.sid] = RunEnd(objs[t.sid], x[1], x[2])]
    /\ threads' = threads \ {t}
    /\ UNCHANGED <<sessVars, handlers, connected, disconnected, active_sessions, events, requests,
                   lastRequest>>

\* handle_disconnect without the `del active_sessions[session_id]` of line 439
handle_disconnect_KeepsEntries(c) ==
    /\ c \in connected
    /\ connected' = connected \ {c}
    /\ disconnected' = disconnected \cup {c}
    /\ LET sessions_to_remove == {id \in active_sessions : objs[id].client_id = c}
       IN \E x \in [sessions_to_remove -> (0..Len(EndFrames(NewSession(c, "", "")))
                                              + 1) \X BOOLEAN] :
               /\ \A id \in sessions_to_remove : x[id] \in EndOutcomes(objs[id])
               /\ objs' = [id \in 1..Len(objs) |->
                             IF id \in sessions_to_remove
                             THEN RunEnd(objs[id], x[id][1], x[id][2])
                             ELSE objs[id]]
    /\ lastRequest' = Request("disconnect", c, 0)
    /\ UNCHANGED <<sessVars, handlers, active_sessions, threads, events, requests>>

\* @socketio.on('disconnect'): every session of active_sessions whose client_id
\* is the sid gets end_session (run to its return by asyncio.run) and is deleted
handle_disconnect(c) ==
    /\ c \in connected
    /\ connected' = connected \ {c}
    /\ disconnected' = disconnected \cup {c}
    /\ LET sessions_to_remove == {id \in active_sessions : objs[id].client_id = c}
       IN /\ \E x \in [sessions_to_remove -> (0..Len(EndFrames(NewSession(c, "", "")))
                                                 + 1) \X BOOLEAN] :
               /\ \A id \in sessions_to_remove : x[id] \in EndOutcomes(objs[id])
               /\ objs' = [id \in 1..Len(objs) |->
                             IF id \in sessions_to_remove
                             THEN RunEnd(objs[id], x[id][1], x[id][2])
                             ELSE objs[id]]
          /\ active_sessions' = active_sessions \ sessions_to_remove
    /\ lastRequest' = Request("disconnect", c, 0)
    /\ UNCHANGED <<sessVars, handlers, threads, events, requests>>

-----------------------------------------------------------------------------
(* The handlers statement by statement.  Flask-SocketIO in threading mode runs
   every handler on a thread of its own and active_sessions has no lock, so
   another handler can run between two statements of a handler. *)

\* A handler run in progress: pc is the statement it is about to execute;
\* size, seen and todo are the dict iterator's recorded size, the keys it has
\* yielded, and sessions_to_remove; failed is the exception that ended the run.
HandlerRun(kind, c, req, id, pc, size, seen, todo) ==
    [kind |-> kind, c |-> c, req |-> req, id |-> id, pc |-> pc, size |-> size,
     seen |-> seen, todo |-> todo, failed |-> ""]

Raised(h, exc) == [h EXCEPT !.pc = "failed", !.failed = exc]

\* the smallest element of a non-empty set of ids (dicts iterate in insertion
\* order, and sessions are inserted in id order)
First(S) == CHOOSE k \in S : \A j \in S : k <= j

\* handle_end_session up to thread.start(): the membership test and the lookup
EndSessionBegin(c, id) ==
    /\ c \in connected
    /\ requests < MaxRequests
    /\ requests' = requests + 1
    /\ IF id \in active_sessions
       THEN /\ threads' = threads \cup {Thread("end", requests + 1, id, "")}
            /\ handlers' = handlers \cup
                   {HandlerRun("end_session", c, requests + 1, id, "del", 0, {}, {})}
       ELSE UNCHANGED <<threads, handlers>>
    /\ lastRequest' = Request("end_session", c, id)
    /\ UNCHANGED <<sessVars, connected, disconnected, objs, active_sessions, events>>

\* handle_end_session from `del active_sessions[session_id]`: the del raises
\* KeyError when the key has gone, and the except branch emits the error
EndSessionDel(h) ==
    /\ h \in handlers
    /\ h.kind = "end_session" /\ h.pc = "del"
    /\ IF h.id \in active_sessions
       THEN /\ active_sessions' = active_sessions \ {h.id}
            /\ events' = events \cup {Event(h.c, "session_ended", h.req, h.id, "", "", "")}
            /\ handlers' = handlers \ {h}
       ELSE /\ events' = events \cup {Event(h.c, "error", h.req, 0, "", "", "KeyError")}
            /\ handlers' = (handlers \ {h}) \cup {Raised(h, "KeyError")}
            /\ UNCHANGED active_sessions
    /\ UNCHANGED <<sessVars, connected, disconnected, objs, threads, requests, lastRequest>>

\* handle_disconnect up to the for statement: the iterator over
\* active_sessions.items() is created
DisconnectBegin(c) ==
    /\ c \in connected
    /\ connected' = connected \ {c}
    /\ disconnected' = disconnected \cup {c}
    /\ handlers' = handlers \cup
           {HandlerRun("disconnect", c, 0, 0, "scan", Cardinality(active_sessions), {}, {})}
    /\ lastRequest' = Request("disconnect", c, 0)
    /\ UNCHANGED <<sessVars, objs, active_sessions, threads, events, requests>>

\* one round of the first loop: the iterator raises RuntimeError (dictionary
\* changed size during iteration) when the dict's size is not the recorded one,
\* else yields the next key or ends the loop; the handler has no try, so the
\* exception ends the run
DisconnectScan(h) ==
    /\ h \in handlers
    /\ h.kind = "disconnect" /\ h.pc = "scan"
    /\ LET rest == active_sessions \ h.seen
       IN handlers' = (handlers \ {h}) \cup
            (IF Cardinality(active_sessions) # h.size THEN {Raised(h, "RuntimeError")}
             ELSE IF rest # {}
             THEN {[h EXCEPT !.seen = h.seen \cup {First(rest)},
                             !.todo = IF objs[First(rest)].client_id = h.c
                                      THEN h.todo \cup {First(rest)} ELSE h.todo]}
             ELSE IF h.todo # {} THEN {[h EXCEPT !.pc = "end"]}
             ELSE {})
    /\ UNCHANGED <<sessVars, connected, disconnected, objs, active_sessions, threads, events,
                   requests, lastRequest>>

\* second loop: asyncio.run(active_sessions[session_id].end_session()); the
\* lookup raises KeyError when the key has gone
DisconnectEnd(h) ==
    /\ h \in handlers
    /\ h.kind = "disconnect" /\ h.pc = "end"
    /\ LET k == First(h.todo)
       IN IF k \in active_sessions
          THEN /\ \E x \in EndOutcomes(objs[k]) :
                    objs' = [objs EXCEPT ![k] = RunEnd(objs[k], x[1], x[2])]
               /\ handlers' = (handlers \ {h}) \cup {[h EXCEPT !.pc = "del"]}
          ELSE /\ handlers' = (handlers \ {h}) \cup {Raised(h, "KeyError")}
               /\ UNCHANGED objs
    /\ UNCHANGED <<sessVars, connected, disconnected, active_sessions, threads, events,
                   requests, lastRequest>>

\* second loop: del active_sessions[session_id]
DisconnectDel(h) ==
    /\ h \in handlers
    /\ h.kind = "disconnect" /\ h.pc = "del"
    /\ LET k == First(h.todo)
       IN IF k \in active_sessions
          THEN /\ active_sessions' = active_sessions \ {k}
               /\ handlers' = (handlers \ {h}) \cup
                      (IF h.todo = {k} THEN {}
                       ELSE {[h EXCEPT !.todo = h.todo \ {k}, !.pc = "end"]})
          ELSE /\ handlers' = (handlers \ {h}) \cup {Raised(h, "KeyError")}
               /\ UNCHANGED active_sessions
    /\ UNCHANGED <<sessVars, connected, disconnected, objs, threads, events, requests,
                   lastRequest>>

-----------------------------------------------------------------------------
(* Specifications *)

\* No coroutine of the session API is in flight.
Quiet == pcStart \in {"idle", "done"} /\ pcSend = "idle" /\ pcEnd = "idle"

SeqStartCall == Quiet /\ StartCall
SeqSendCall == Quiet /\ \E c \in Chunks : SendCall(c)
SeqEndCall == Quiet /\ EndCall
Receive == \E f \in InFrames : DispReceive(f)

\* The session API called by one caller, one call after the other; the remote
\* model stays silent.
NextSession ==
    \/ SeqStartCall \/ StartOpen \/ StartSend
    \/ SeqSendCall \/ SendAudioStart \/ SendAudioInput
    \/ SeqEndCall \/ EndAudioInput \/ EndPrompt \/ EndSessionFrame \/ EndClose

SpecSession == Init /\ [][NextSession]_vars

\* A session that is started and ended while its response task runs on the
\* same event loop and the remote model sends frames.
NextDispatch ==
    \/ SeqStartCall \/ StartOpen \/ StartSend
    \/ DispStart \/ Receive \/ DispCancelled
    \/ SeqEndCall \/ EndPrompt \/ EndSessionFrame \/ EndClose

\* The session is constructed with the defaults of __init__.
InitDispatch == Init /\ scenario = "vmware-migration" /\ voice_id = "matthew"

SpecDispatch == InitDispatch /\ [][NextDispatch]_vars

\* The session as the handlers use it: start_session runs on the event loop of
\* start_session_async's thread, which is closed when start_session has
\* returned; until then a receive whose result is ready does not suspend the
\* response task.  end_session is called afterwards, on a loop of its own.
NextThread ==
    \/ SeqStartCall \/ StartOpen \/ StartSend
    \/ DispStart \/ Receive \/ StartLoopClose
    \/ SeqEndCall \/ EndPrompt \/ EndSessionFrame \/ EndClose

SpecThread == InitDispatch /\ [][NextThread]_vars

\* send_audio_chunk calls made so far, returned or in flight
SendCallsMade ==
    Len(sendLog) + (IF pcSend = "idle" THEN 0 ELSE 1) + (IF pcSend2 = "idle" THEN 0 ELSE 1)

AnySendCall == SendCallsMade < MaxTaskSends /\ \E c \in Chunks : SendCall(c)
AnyOtherSendCall == SendCallsMade < MaxTaskSends /\ \E c \in Chunks : OtherSendCall(c)

\* start_session, send_audio_chunk and end_session on tasks of their own: a
\* call may be made at any time and the coroutines interleave at their awaits;
\* the remote model stays silent.
NextTasks ==
    \/ StartCall \/ StartOpen \/ StartSend
    \/ AnySendCall \/ SendAudioStart \/ SendAudioInput
    \/ EndCall \/ EndAudioInput \/ EndPrompt \/ EndSessionFrame \/ EndClose

SpecTasks == InitDispatch /\ [][NextTasks]_vars

\* start_session has returned
StartReturned == pcStart = "done"

LateSendCall == StartReturned /\ AnySendCall
LateOtherSendCall == StartReturned /\ AnyOtherSendCall
LateEndCall == StartReturned /\ EndCall

\* After start_session has returned: two send_audio_chunk calls and end_session
\* on tasks of their own, interleaving at their awaits.
NextSenders ==
    \/ StartCall \/ StartOpen \/ StartSend
    \/ LateSendCall \/ SendAudioStart \/ SendAudioInput
    \/ LateOtherSendCall \/ OtherSendAudioStart \/ OtherSendAudioInput
    \/ LateEndCall \/ EndAudioInput \/ EndPrompt \/ EndSessionFrame \/ EndClose

SpecSenders == InitDispatch /\ [][NextSenders]_vars

Connect == \E c \in Sids : handle_connect(c)
Disconnect == \E c \in Sids : handle_disconnect(c)
StartSession == \E c \in Sids, data \in StartRequests : handle_start_session(c, data)
SendAudio == \E c \in Sids, id \in NamedIds, a \in Chunks : handle_send_audio(c, id, a)
EndSession == \E c \in Sids, id \in NamedIds : handle_end_session(c, id)
StartThread == \E t \in threads : start_session_async(t)
SendThread == \E t \in threads : send_audio_async(t)
EndThread == \E t \in threads : end_session_async(t)

\* The socket handlers, each run as a whole, and the threads they start.
NextApp ==
    \/ Connect \/ Disconnect \/ StartSession \/ SendAudio \/ EndSession
    \/ StartThread \/ SendThread \/ EndThread

InitApp == Init /\ scenario = "vmware-migration" /\ voice_id = "matthew"

SpecApp == InitApp /\ [][NextApp]_vars

\* The registry under one kind of start request and one audio payload: the
\* handlers and threads are those of SpecApp.
DefaultStart == [scenario |-> "vmware-migration", voice |-> "matthew"]

RegStartSession ==
    /\ requests < MaxRegistryRequests
    /\ \E c \in Sids : handle_start_session(c, DefaultStart)
RegSendAudio ==
    /\ requests < MaxRegistryRequests
    /\ \E c \in Sids, id \in NamedIds : handle_send_audio(c, id, "chunkA")
RegEndSession ==
    /\ requests < MaxRegistryRequests
    /\ EndSession

NextRegistry ==
    \/ Connect \/ Disconnect \/ RegStartSession \/ RegSendAudio \/ RegEndSession
    \/ StartThread \/ SendThread \/ EndThread

SpecRegistry == InitApp /\ [][NextRegistry]_vars

StartThreadRun == \E t \in threads : start_session_async_run(t)
ResponseEmit == \E t \in threads, name \in ForwardedNames : process_responses_emit(t, name)
StartThreadClose == \E t \in threads : start_session_async_close(t)

\* Connections starting sessions and disconnecting, with the response task of
\* each started session followed while its thread's loop runs.
NextForward ==
    \/ Connect \/ Disconnect \/ RegStartSession
    \/ StartThreadRun \/ ResponseEmit \/ StartThreadClose

SpecForward == InitApp /\ [][NextForward]_vars

RaceStartSession == \E c \in Sids : handle_start_session(c, DefaultStart)
RaceEndBegin == \E c \in Sids, id \in NamedIds : EndSessionBegin(c, id)
RaceEndDel == \E h \in handlers : EndSessionDel(h)
RaceDisconnectBegin == \E c \in Sids : DisconnectBegin(c)
RaceDisconnectScan == \E h \in handlers : DisconnectScan(h)
RaceDisconnectEnd == \E h \in handlers : DisconnectEnd(h)
RaceDisconnectDel == \E h \in handlers : DisconnectDel(h)

\* The start_session, end_session and disconnect handlers running on threads
\* of their own, interleaving between their statements.  The worker threads
\* they start never touch active_sessions; here they are started and not yet
\* scheduled.
NextRaces ==
    \/ Connect \/ RaceStartSession
    \/ RaceEndBegin \/ RaceEndDel
    \/ RaceDisconnectBegin \/ RaceDisconnectScan \/ RaceDisconnectEnd \/ RaceDisconnectDel

SpecRaces == InitApp /\ [][NextRaces]_vars

-----------------------------------------------------------------------------
(* Claims about the session *)

\* The frames end_session tried to send, in order, accepted or not.
EndAttempts ==
    LET w == SelectSeq(wire, LAMBDA e : e.by = "end")
    IN [i \in 1..Len(w) |-> w[i].frame]

\* The frames of the audio content block the remote stream received.
AudioFrames == SelectSeq(Accepted(wire), LAMBDA f : f.name = "audio_content_name")

IsPrefix(p, q) == Len(p) <= Len(q) /\ \A i \in 1..Len(p) : p[i] = q[i]

\* C1: for every valid scenario key, a start() that succeeded has sent exactly
\* sessionStart, promptStart and the SYSTEM contentStart / textInput /
\* contentEnd triple, in that order, and all five frames are on the stream
\* before is_active is true.
C1_HandshakeBeforeActive ==
    scenario \in ScenarioKeys =>
        /\ startResult = "true" =>
             IsPrefix(StartFrames(scenario, voice_id), Accepted(wire))
        /\ is_active => IsPrefix(StartFrames(scenario, voice_id), Accepted(wire))

\* C2: an end() that found the session active with the audio block open has,
\* when it returns, attempted contentEnd, promptEnd and sessionEnd in that
\* order, whichever of the sends failed.
C2_EndAttemptsEveryClosingFrame ==
    (pcEnd = "idle" /\ endCtx.active /\ endCtx.audio) =>
        EndAttempts = << AudioContentEndFrame, PromptEndFrame, SessionEndFrame >>

\* C3: an end() that found the session active returns with the session
\* inactive, the input side of the stream closed and cancellation of the
\* response task requested, whichever step failed.
C3_EndAlwaysReleases ==
    (pcEnd = "idle" /\ endCtx.active) =>
        /\ ~is_active
        /\ stream = "closed"
        /\ cancel_requested

\* an end_session call is made in this step
EndCalled == endCalls' = endCalls + 1

\* C4: an end() call that finds the session inactive (ended or failed) returns
\* at once without an error, sends no frame and changes no session field.
C4_EndOnInactiveIsNoOp ==
    [][ (EndCalled /\ ~is_active) =>
          /\ wire' = wire
          /\ pcEnd' = "idle"
          /\ endResult' = "noop"
          /\ UNCHANGED <<client, stream, response_task, cancel_requested, is_active,
                         role, display_assistant_text, audio_input_started>> ]_vars

\* a second end() on a session that a first end() has torn down
C4_Witness ==
    /\ endCalls >= 2
    /\ endResult = "noop"
    /\ EndAttempts # << >>

\* The chunks of the send_audio_chunk calls that returned True, in call order.
AcceptedChunks ==
    LET w == SelectSeq(sendLog, LAMBDA e : e.result)
    IN [i \in 1..Len(w) |-> w[i].chunk]

\* C5: when n >= 1 send_audio_chunk calls, made one after the other with no
\* end() so far, have returned True, the stream has received of the audio block
\* exactly one contentStart (role USER), sent before the first audioInput, and
\* then the n audioInput frames of those calls in call order.
C5_OneAudioStartThenChunks ==
    (endCalls = 0 /\ pcSend = "idle" /\ Len(AcceptedChunks) >= 1) =>
        AudioFrames = << AudioContentStartFrame >>
                        \o [i \in 1..Len(AcceptedChunks) |-> AudioInputFrame(AcceptedChunks[i])]

\* two successful calls in a row, with different chunks
C5_Witness ==
    /\ endCalls = 0
    /\ pcSend = "idle"
    /\ Len(sendLog) >= 2
    /\ \A i \in 1..Len(sendLog) : sendLog[i].result
    /\ sendLog[1].chunk # sendLog[2].chunk

\* a send_audio_chunk call is made in this step
SendCalled == pcSend = "idle" /\ (pcSend' # "idle" \/ sendLog' # sendLog)

\* C6: send_audio_chunk called on a session that is not active returns False
\* at once, sends no frame and opens no audio block.
C6_SendOnInactiveRejected ==
    [][ (SendCalled /\ ~is_active) =>
          /\ pcSend' = "idle"
          /\ Len(sendLog') = Len(sendLog) + 1
          /\ ~sendLog'[Len(sendLog')].result
          /\ wire' = wire
          /\ UNCHANGED <<audio_input_started, is_active, stream>> ]_vars

\* a call rejected before start and a call rejected after end, nothing sent for either
C6_Witness ==
    /\ Len(sendLog) >= 2
    /\ \A i \in 1..Len(sendLog) : ~sendLog[i].active /\ ~sendLog[i].result
    /\ startResult = "true"
    /\ EndAttempts # << >>
    /\ AudioFrames = << >>

-----------------------------------------------------------------------------
(* Claims about the response dispatcher *)

\* Index in inlog of the contentStart frame that opened the block frame i is in
\* (0 when no contentStart came before it).
RECURSIVE BlockStart(_)
BlockStart(i) ==
    IF i <= 1 THEN 0
    ELSE IF inlog[i - 1].ev = "contentStart" THEN i - 1
    ELSE BlockStart(i - 1)

\* C7: a textOutput frame is emitted as ai_text only if the contentStart that
\* opened its block has role ASSISTANT and itself carries the SPECULATIVE
\* generation stage.
C7_AssistantTextOnlyFromSpeculativeBlock ==
    \A k \in 1..Len(emitted) :
        emitted[k].name = "ai_text" =>
            LET b == BlockStart(emitted[k].frame)
            IN /\ b # 0
               /\ inlog[b].role = "ASSISTANT"
               /\ inlog[b].meta = "SPECULATIVE"

\* the response task handles a textOutput frame in this step
TextOutputHandled ==
    /\ Len(inlog') = Len(inlog) + 1
    /\ inlog'[Len(inlog')].ev = "textOutput"

\* C8: a textOutput frame handled while role is USER is emitted as user_text,
\* whatever display_assistant_text is, and not as ai_text.
C8_UserTextAlwaysForwarded ==
    [][ (TextOutputHandled /\ role = "USER") =>
          emitted' = Append(emitted, [name |-> "user_text",
                                      payload |-> inlog'[Len(inlog')].content,
                                      frame |-> Len(inlog')]) ]_vars

\* a USER textOutput was forwarded while display_assistant_text was true
C8_Witness ==
    /\ role = "USER"
    /\ display_assistant_text
    /\ inlog # << >>
    /\ inlog[Len(inlog)].ev = "textOutput"
    /\ emitted # << >>
    /\ emitted[Len(emitted)].name = "user_text"
    /\ emitted[Len(emitted)].frame = Len(inlog)

\* C9: after a malformed frame the response task of an active session is still
\* receiving.
C9_MalformedFrameOnlyDropped ==
    (is_active /\ \E i \in 1..Len(inlog) : Malformed(inlog[i])) =>
        response_task = "awaiting"

-----------------------------------------------------------------------------
(* Claims about the handlers *)

\* the thread of session id's start_session_async has finished
StartHandled(id) == ~\E t \in threads : t.kind = "start" /\ t.sid = id

\* start_session returned False on session id (the response task is created
\* exactly when it returns True)
StartFailedOn(id) == StartHandled(id) /\ ~objs[id].task_created

\* C10: when start() failed and the start-session handling has finished, the
\* (still connected) client has received session_error and the failed session
\* is not in active_sessions, so the health query does not count it.
C10_FailedStartReportedAndUnregistered ==
    \A id \in 1..Len(objs) :
        (StartFailedOn(id) /\ objs[id].client_id \in connected) =>
            /\ \E e \in events : e.name = "session_error" /\ e.to = objs[id].client_id
            /\ id \notin active_sessions
            /\ health = Cardinality({i \in active_sessions : ~StartFailedOn(i)})

\* the step is one run of a socket handler for a send_audio or end_session
\* event (handle_connect and handle_disconnect do not count as requests)
HandlesSessionRequest ==
    /\ requests' = requests + 1
    /\ lastRequest'.kind \in {"send_audio", "end_session"}

\* C11: a send_audio or end_session event that names a session id which is
\* not in active_sessions is answered with a "Session not found" error event
\* to the client that sent it, and leaves the registry and every session
\* as they were.
C11_UnknownIdAnsweredNotFound ==
    [][(HandlesSessionRequest /\ lastRequest'.id \notin active_sessions) =>
          /\ \E e \in events' \ events :
                 /\ e.name = "error" /\ e.message = "Session not found"
                 /\ e.to = lastRequest'.from
          /\ active_sessions' = active_sessions
          /\ objs' = objs]_vars

C13_OnlyOwnerActsOnSession ==
    [][(/\ HandlesSessionRequest
        /\ lastRequest'.id \in 1..Len(objs)
        /\ objs[lastRequest'.id].client_id # lastRequest'.from) =>
          /\ \A t \in threads' \ threads : t.sid # lastRequest'.id
          /\ objs' = objs
          /\ active_sessions' = active_sessions]_vars

\* C14: once the thread of a start_session request has run to its end with
\* start_session returning True (the last point at which it can emit), the
\* requesting connection has been sent session_started with the id of the new
\* session and the scenario and voice of the request.
C14_StartedSessionAnnounced ==
    \A id \in 1..Len(objs) :
        (StartHandled(id) /\ objs[id].task_created) =>
            \E e \in events :
                /\ e.name = "session_started"
                /\ e.to = objs[id].client_id
                /\ e.session_id = id
                /\ e.scenario = objs[id].scenario
                /\ e.voice = objs[id].voice_id

\* C15: a start_session request stores its session under an identifier no
\* session was created with before and leaves the earlier sessions as they
\* are; a step that removes entries from active_sessions leaves every
\* remaining entry in place with its session unchanged, and end_session
\* removes exactly the entry it names; an end_session that names an id which
\* is not in active_sessions changes neither the registry nor any session,
\* starts nothing and does not reach the handler's except branch.
C15_RegistryKeepsOtherSessions ==
    [][/\ (requests' = requests + 1 /\ lastRequest'.kind = "start_session") =>
             /\ lastRequest'.id \notin 1..Len(objs)
             /\ active_sessions' = active_sessions \cup {lastRequest'.id}
             /\ \A j \in 1..Len(objs) : objs'[j] = objs[j]
       /\ (active_sessions' # active_sessions /\ active_sessions' \subseteq active_sessions) =>
             \A j \in active_sessions' : objs'[j] = objs[j]
       /\ (requests' = requests + 1 /\ lastRequest'.kind = "end_session") =>
             IF lastRequest'.id \in active_sessions
             THEN active_sessions' = active_sessions \ {lastRequest'.id}
             ELSE /\ active_sessions' = active_sessions
                  /\ objs' = objs
                  /\ threads' = threads
                  /\ \A e \in events' \ events :
                         e.name = "error" => e.message = "Session not found"]_vars

\* an end_session for an id that was never given to a session has been
\* handled while a session is in the registry
C15_Witness ==
    /\ lastRequest.kind = "end_session"
    /\ lastRequest.id \notin 1..Len(objs)
    /\ active_sessions # {}

-----------------------------------------------------------------------------
(* Claims about failed sends and concurrent calls *)

\* the step is a send_event of send_audio_chunk that raised
SendFrameFailed ==
    /\ Len(wire') = Len(wire) + 1
    /\ wire'[Len(wire')].by = "send"
    /\ ~wire'[Len(wire')].ok

\* C20: when a send_event raises inside send_audio_chunk on an active session,
\* the call returns False with is_active as it was, and when the frame that
\* failed was the audio contentStart, audio_input_started is not set.
C20_FailedSendReturnsFalse ==
    [][(is_active /\ SendFrameFailed) =>
          /\ pcSend' = "idle"
          /\ Len(sendLog') = Len(sendLog) + 1
          /\ ~sendLog'[Len(sendLog')].result
          /\ is_active' = is_active
          /\ wire'[Len(wire')].frame = AudioContentStartFrame => ~audio_input_started']_vars

\* the audio contentStart of a send_audio_chunk on an active session was
\* refused and the call has returned False
C20_Witness ==
    /\ wire # << >>
    /\ wire[Len(wire)] = [by |-> "send", frame |-> AudioContentStartFrame, ok |-> FALSE]
    /\ sendLog # << >>
    /\ sendLog[Len(sendLog)].active
    /\ ~sendLog[Len(sendLog)].result
    /\ is_active
    /\ ~audio_input_started
    /\ pcSend = "idle"

\* C18: a session whose start_session fails is not marked active at any time
\* before the failure is reported: in the step in which start_session takes
\* its except branch, is_active is false beforehand (and false afterwards).
C18_FailedStartNeverActive ==
    [][(startResult # "false" /\ startResult' = "false") =>
          (~is_active /\ ~is_active')]_vars

\* sessionEnd, once received, is the last frame the stream received
NoFrameAfterSessionEnd ==
    \A i \in 1..Len(Accepted(wire)) :
        Accepted(wire)[i] = SessionEndFrame => i = Len(Accepted(wire))

\* C16: in every state of every interleaving of start_session,
\* send_audio_chunk and end_session, the frames the stream has received are in
\* phase order: each frame of the audio block comes after the five handshake
\* frames, and no frame comes after sessionEnd.
C16_FramesInPhaseOrder ==
    LET a == Accepted(wire)
    IN /\ \A i \in 1..Len(a) :
             a[i].name = "audio_content_name" =>
                 IsPrefix(StartFrames(scenario, voice_id), SubSeq(a, 1, i - 1))
       /\ NoFrameAfterSessionEnd

\* The contentStart and contentEnd frames of the audio block the stream
\* received, in order.
AudioBrackets == SelectSeq(AudioFrames, LAMBDA f : f.ev \in {"contentStart", "contentEnd"})

\* C17: in every state of every interleaving of send_audio_chunk calls and
\* end_session, the audio block is well bracketed: its contentStart and
\* contentEnd frames alternate, beginning with a contentStart (no contentStart
\* while the block is open, no contentEnd while it is not).
C17_AudioBlockWellBracketed ==
    \A i \in 1..Len(AudioBrackets) :
        AudioBrackets[i].ev = (IF i % 2 = 1 THEN "contentStart" ELSE "contentEnd")

\* C19: under every interleaving of the start_session, end_session and
\* disconnect handlers, no handler run ends in an exception raised because
\* active_sessions changed between two of its statements, and no session of a
\* connection whose disconnect handler has ended is left in the registry.
C19_RegistryOperationsSerialized ==
    /\ \A h \in handlers : h.failed = ""
    /\ \A id \in active_sessions :
          objs[id].client_id \in disconnected =>
              \E h \in handlers : h.kind = "disconnect" /\ h.c = objs[id].client_id

\* C21: while the session is active after a start_session that returned True,
\* with its stream open and no cancel requested, the response task is still
\* consuming: it is about to run or is suspended in a receive that its event
\* loop will resume (a task ended by an exception on a malformed frame is the
\* case of C9 and is left aside here).
C21_DispatcherKeepsConsuming ==
    (/\ startResult = "true" /\ is_active /\ stream = "open" /\ ~cancel_requested
     /\ response_task # "crashed") =>
        response_task \in {"scheduled", "awaiting"}

\* C22: every ai_text, user_text and ai_audio event forwarded for a session
\* has gone only to the connection that created the session.
C22_ForwardedOnlyToOwner ==
    \A e \in events :
        e.name \in ForwardedNames => e.to = objs[e.session_id].client_id

====
